---- MODULE Spec2Model ----
(***************************************************************************)
(* DIMSE command-message codec of go-netdicom.                             *)
(*                                                                         *)
(* dimse/generate_dimse_messages.py holds the message schema (MESSAGES)    *)
(* and emits, per message kind, a Go struct, an Encode method and a decode *)
(* function, plus the dispatch switch decodeMessageForType.  The emitted    *)
(* Go is modelled as abstract statements (one record per emitted line or   *)
(* block); the runtime helpers those statements call (encodeField,         *)
(* encodeStatus, messageDecoder.get*, unparsedElements, ReadMessage) are   *)
(* not emitted by the generator and are modelled from the specification.   *)
(***************************************************************************)
EXTENDS Integers, Sequences, FiniteSets, TLC

VARIABLES
    registry,    \* the schema list the generator iterates (MESSAGES)
    generated,   \* what main() has written to dimse_messages.go
    genpc,       \* where main() is: defs (the loop over messages) / raised / done
    shared,      \* package-level mutable data of the generated code (there is none)
    msg,         \* sequential caller: the message handed to Encode
    stream,      \* sequential caller: the element stream on the wire
    result,      \* sequential caller: what ReadMessage returned
    pc,          \* sequential caller: idle / encoded / decoded / reencoded
    edits,       \* elements the peer has added to or dropped from the stream
    tasks        \* concurrent callers: one record per goroutine

vars == <<registry, generated, genpc, shared, msg, stream, result, pc, edits, tasks>>

\* ------------------------------------------------------------------ bounds

\* Longest Extra list of a message handed to Encode.
MaxExtra == 2
\* Most elements a peer adds to, or drops from, an encoded stream.
MaxTamper == 2
\* Number of goroutines calling the codec concurrently.
NumProcs == 2
\* Most fields of a candidate message kind handed to the generator.
MaxFields == 2

\* ------------------------------------------------------------------ schema

\* Field = NamedTuple('Field', [name, type, required])
Field(name, type, required) == [name |-> name, type |-> type, required |-> required]

\* Message = NamedTuple('Message', [name, type, command_field, fields])
Message(name, type, command_field, fields) ==
    [name |-> name, type |-> type, command_field |-> command_field, fields |-> fields]

REQUEST == "REQUEST"
RESPONSE == "RESPONSE"

MESSAGES ==
    << Message("C_STORE_RQ", REQUEST, 1,
         << Field("AffectedSOPClassUID", "string", TRUE),
            Field("MessageID", "uint16", TRUE),
            Field("Priority", "uint16", TRUE),
            Field("CommandDataSetType", "uint16", TRUE),
            Field("AffectedSOPInstanceUID", "string", TRUE),
            Field("MoveOriginatorApplicationEntityTitle", "string", FALSE),
            Field("MoveOriginatorMessageID", "uint16", FALSE) >>),
       Message("C_STORE_RSP", RESPONSE, \H8001,
         << Field("AffectedSOPClassUID", "string", TRUE),
            Field("MessageIDBeingRespondedTo", "uint16", TRUE),
            Field("CommandDataSetType", "uint16", TRUE),
            Field("AffectedSOPInstanceUID", "string", TRUE),
            Field("Status", "Status", TRUE) >>),
       Message("C_FIND_RQ", REQUEST, \H20,
         << Field("AffectedSOPClassUID", "string", TRUE),
            Field("MessageID", "uint16", TRUE),
            Field("Priority", "uint16", TRUE),
            Field("CommandDataSetType", "uint16", TRUE) >>),
       Message("C_FIND_RSP", RESPONSE, \H8020,
         << Field("AffectedSOPClassUID", "string", TRUE),
            Field("MessageIDBeingRespondedTo", "uint16", TRUE),
            Field("CommandDataSetType", "uint16", TRUE),
            Field("Status", "Status", TRUE) >>),
       Message("C_GET_RQ", REQUEST, \H10,
         << Field("AffectedSOPClassUID", "string", TRUE),
            Field("MessageID", "uint16", TRUE),
            Field("Priority", "uint16", TRUE),
            Field("CommandDataSetType", "uint16", TRUE) >>),
       Message("C_GET_RSP", RESPONSE, \H8010,
         << Field("AffectedSOPClassUID", "string", TRUE),
            Field("MessageIDBeingRespondedTo", "uint16", TRUE),
            Field("CommandDataSetType", "uint16", TRUE),
            Field("NumberOfRemainingSuboperations", "uint16", FALSE),
            Field("NumberOfCompletedSuboperations", "uint16", FALSE),
            Field("NumberOfFailedSuboperations", "uint16", FALSE),
            Field("NumberOfWarningSuboperations", "uint16", FALSE),
            Field("Status", "Status", TRUE) >>),
       Message("C_MOVE_RQ", REQUEST, \H21,
         << Field("AffectedSOPClassUID", "string", TRUE),
            Field("MessageID", "uint16", TRUE),
            Field("Priority", "uint16", TRUE),
            Field("MoveDestination", "string", TRUE),
            Field("CommandDataSetType", "uint16", TRUE) >>),
       Message("C_MOVE_RSP", RESPONSE, \H8021,
         << Field("AffectedSOPClassUID", "string", TRUE),
            Field("MessageIDBeingRespondedTo", "uint16", TRUE),
            Field("CommandDataSetType", "uint16", TRUE),
            Field("NumberOfRemainingSuboperations", "uint16", FALSE),
            Field("NumberOfCompletedSuboperations", "uint16", FALSE),
            Field("NumberOfFailedSuboperations", "uint16", FALSE),
            Field("NumberOfWarningSuboperations", "uint16", FALSE),
            Field("Status", "Status", TRUE) >>),
       Message("C_ECHO_RQ", REQUEST, \H30,
         << Field("MessageID", "uint16", TRUE),
            Field("CommandDataSetType", "uint16", TRUE) >>),
       Message("C_ECHO_RSP", RESPONSE, \H8030,
         << Field("MessageIDBeingRespondedTo", "uint16", TRUE),
            Field("CommandDataSetType", "uint16", TRUE),
            Field("Status", "Status", TRUE) >>) >>

\* ------------------------------------------------------------------ generator

\* Python's str(int) and '%x' % int: the digits of n in the given base,
\* most significant first.
RECURSIVE Digits(_, _)
Digits(n, base) ==
    IF n < base THEN <<n>> ELSE Append(Digits(n \div base, base), n % base)

\* The Go compiler's reading of an integer literal.
RECURSIVE DigitsValue(_, _)
DigitsValue(ds, base) ==
    IF ds = <<>> THEN 0
    ELSE DigitsValue(SubSeq(ds, 1, Len(ds) - 1), base) * base + ds[Len(ds)]

GoConst(lit) == DigitsValue(lit.digits, lit.base)

NoLit == [base |-> 10, digits |-> <<>>]

\* One emitted Go statement of an Encode or decode body.
Stmt(op, field, tag, how, lit) ==
    [op |-> op, field |-> field, tag |-> tag, how |-> how, lit |-> lit]

\* print(f' encodeField(e, dicom.TagCommandField, uint16({m.command_field}))')
EncodeCommandFieldStmt(m) ==
    Stmt("encodeConst", "", "CommandField", "uint16",
         [base |-> 10, digits |-> Digits(m.command_field, 10)])

\* Mutant: an optional field is written without the zero test.
EncodeFieldStmt_NoZeroTest(f) ==
    IF f.type = "Status"
    THEN Stmt("encodeStatus", f.name, "", "", NoLit)
    ELSE Stmt("encodeField", f.name, f.name, "", NoLit)

\* The body of `for f in m.fields:` in the Encode part.
EncodeFieldStmt(f) ==
    IF ~f.required
    THEN Stmt("ifNotZero", f.name, f.name,
              IF f.type = "string" THEN "\"\"" ELSE "0", NoLit)
    ELSE IF f.type = "Status"
    THEN Stmt("encodeStatus", f.name, "", "", NoLit)
    ELSE Stmt("encodeField", f.name, f.name, "", NoLit)

\* for _, elem := range v.Extra { dicom.WriteElement(e, elem) }
EncodeExtraStmt == Stmt("rangeExtra", "Extra", "", "", NoLit)

RECURSIVE EncodeFieldStmts(_, _)
EncodeFieldStmts(fields, i) ==
    IF i > Len(fields) THEN <<>>
    ELSE <<EncodeFieldStmt(fields[i])>> \o EncodeFieldStmts(fields, i + 1)

\* Mutant: the loop over v.Extra is not emitted.
EncodeBody_NoExtra(m) ==
    <<EncodeCommandFieldStmt(m)>> \o EncodeFieldStmts(m.fields, 1)

\* Mutant: the loop over v.Extra is emitted ahead of the schema fields.
EncodeBody_ExtraFirst(m) ==
    <<EncodeCommandFieldStmt(m), EncodeExtraStmt>> \o EncodeFieldStmts(m.fields, 1)

\* The emitted body of func (v* Kind) Encode(e *dicomio.Encoder).
EncodeBody(m) ==
    <<EncodeCommandFieldStmt(m)>> \o EncodeFieldStmts(m.fields, 1) \o <<EncodeExtraStmt>>

KnownDecoders == {"string", "uint16", "uint32"}

\* The generator raises Exception(f) on a field type it has no decoder for.
Raises(f) == f.type # "Status" /\ f.type \notin KnownDecoders

\* Mutant: every scalar field is read as OptionalElement.
DecodeFieldStmt_AllOptional(f) ==
    IF f.type = "Status"
    THEN Stmt("getStatus", f.name, "", "", NoLit)
    ELSE Stmt(CASE f.type = "string" -> "getString"
                [] f.type = "uint16" -> "getUInt16"
                [] OTHER -> "getUInt32",
              f.name, f.name, "OptionalElement", NoLit)

\* The body of `for f in m.fields:` in the decode part.
DecodeFieldStmt(f) ==
    IF f.type = "Status"
    THEN Stmt("getStatus", f.name, "", "", NoLit)
    ELSE Stmt(CASE f.type = "string" -> "getString"
                [] f.type = "uint16" -> "getUInt16"
                [] OTHER -> "getUInt32",
              f.name, f.name,
              IF f.required THEN "RequiredElement" ELSE "OptionalElement", NoLit)

\* Mutant: the decode routine fills one package-level instance per kind.
DecodeAllocStmt_Shared(m) == Stmt("new", m.name, "", "shared", NoLit)

\* v := &Kind{}
DecodeAllocStmt(m) == Stmt("new", m.name, "", "local", NoLit)

\* v.Extra = d.unparsedElements(); return v
DecodeExtraStmt == Stmt("unparsedElements", "Extra", "", "", NoLit)

RECURSIVE DecodeFieldStmts(_, _)
DecodeFieldStmts(fields, i) ==
    IF i > Len(fields) THEN <<>>
    ELSE <<DecodeFieldStmt(fields[i])>> \o DecodeFieldStmts(fields, i + 1)

\* Mutant: v.Extra = d.unparsedElements() is not emitted.
DecodeBody_NoExtra(m) ==
    <<DecodeAllocStmt(m)>> \o DecodeFieldStmts(m.fields, 1)

\* The emitted body of func decodeKind(d *messageDecoder) *Kind.
DecodeBody(m) ==
    <<DecodeAllocStmt(m)>> \o DecodeFieldStmts(m.fields, 1) \o <<DecodeExtraStmt>>

\* type Kind struct { <fields>; Extra []*dicom.Element }
StructDef(m) ==
    [i \in 1..(Len(m.fields) + 1) |->
        IF i <= Len(m.fields)
        THEN [name |-> m.fields[i].name, type |-> m.fields[i].type]
        ELSE [name |-> "Extra", type |-> "[]*dicom.Element"]]

\* func (v* Kind) String(): the field names the format string lists.
StringFormat(m) == [i \in 1..Len(m.fields) |-> m.fields[i].name]

\* Everything generate_go_definition(m, out) prints, when it does not raise.
generate_go_definition(m) ==
    [name |-> m.name,
     struct |-> StructDef(m),
     Encode |-> EncodeBody(m),
     HasData |-> "CommandDataSetType",
     String |-> StringFormat(m),
     decode |-> DecodeBody(m)]

\* generate_go_definition raises inside the decode loop, after the struct,
\* Encode, HasData and String of that message were written.
GenerationRaises(m) == \E i \in 1..Len(m.fields) : Raises(m.fields[i])

\* Mutant: the case label is printed with '0x%d'.
DispatchCase_Decimal(m) ==
    [lit |-> [base |-> 16, digits |-> Digits(m.command_field, 10)], call |-> m.name]

\* case 0x%x: return decodeKind(d)
DispatchCase(m) ==
    [lit |-> [base |-> 16, digits |-> Digits(m.command_field, 16)], call |-> m.name]

\* The cases of the emitted switch in decodeMessageForType, in order.
DispatchCases(ms) == [i \in 1..Len(ms) |-> DispatchCase(ms[i])]

\* The whole output of main() for the schema list ms.
main(ms) ==
    [defs |-> [i \in 1..Len(ms) |-> generate_go_definition(ms[i])],
     switch |-> DispatchCases(ms)]

\* ------------------------------------------------------------------ runtime
\* The helpers the emitted Go calls.  They live in the hand-written part of
\* package dimse, which the generator does not produce.

\* A typed value of the external tag/value element primitive.
UInt16(n) == [t |-> "uint16", n |-> n, s |-> ""]
String(s) == [t |-> "string", n |-> 0, s |-> s]

\* The Go zero value an emitted `v.F != <zero>` test compares with.
GoZero(text) == IF text = "\"\"" THEN String("") ELSE UInt16(0)

\* The zero value a fresh struct holds for a field of the given type.
ZeroOf(type) ==
    CASE type = "string" -> String("")
      [] type = "Status" -> [Status |-> UInt16(0), ErrorComment |-> String("")]
      [] OTHER -> UInt16(0)

Element(tag, value) == [tag |-> tag, value |-> value]

StatusSuccess == 0

\* encodeField(e, tag, v): append one element to the encoder's output.
encodeField(e, tag, value) == Append(e, Element(tag, value))

\* Status codec, encode: the status-code element, then the auxiliary
\* element when one is present.
encodeStatus(e, s) ==
    LET e1 == encodeField(e, "Status", s.Status)
    IN  IF s.ErrorComment # String("")
        THEN encodeField(e1, "ErrorComment", s.ErrorComment)
        ELSE e1

\* One statement of an emitted Encode body, run on message v and encoder e.
ExecEncodeStmt(s, v, e) ==
    CASE s.op = "encodeConst" -> encodeField(e, s.tag, UInt16(GoConst(s.lit)))
      [] s.op = "ifNotZero" ->
            IF v.fields[s.field] # GoZero(s.how)
            THEN encodeField(e, s.tag, v.fields[s.field])
            ELSE e
      [] s.op = "encodeStatus" -> encodeStatus(e, v.fields[s.field])
      [] s.op = "encodeField" -> encodeField(e, s.tag, v.fields[s.field])
      [] s.op = "rangeExtra" -> e \o v.Extra

\* Statements i.. of an Encode body, in order.
RECURSIVE RunEncode(_, _, _, _)
RunEncode(body, i, v, e) ==
    IF i > Len(body) THEN e
    ELSE RunEncode(body, i + 1, v, ExecEncodeStmt(body[i], v, e))

NoError == [type |-> "none", kind |-> "", field |-> "", code |-> 0]
MissingRequiredField(kind, field) ==
    [type |-> "MissingRequiredField", kind |-> kind, field |-> field, code |-> 0]
UnknownCommand(code) ==
    [type |-> "UnknownCommand", kind |-> "", field |-> "", code |-> code]

\* messageDecoder over an element stream: nothing consumed, no error.
NewDecoder(elems) ==
    [elems |-> elems, parsed |-> [i \in 1..Len(elems) |-> FALSE], err |-> NoError]

\* setError keeps the first error.
setError(d, err) == IF d.err = NoError THEN [d EXCEPT !.err = err] ELSE d

\* Index of the first element carrying the tag, 0 when there is none.
FirstIndex(elems, tag) ==
    IF \E i \in 1..Len(elems) : elems[i].tag = tag
    THEN CHOOSE i \in 1..Len(elems) :
            /\ elems[i].tag = tag
            /\ \A j \in 1..(i - 1) : elems[j].tag # tag
    ELSE 0

\* Pull the element matching the tag: mark it consumed; when it is absent
\* and required, record MissingRequiredField.
findElement(d, kind, tag, optional) ==
    LET i == FirstIndex(d.elems, tag)
    IN  IF i > 0
        THEN [d |-> [d EXCEPT !.parsed[i] = TRUE], found |-> TRUE,
              value |-> d.elems[i].value]
        ELSE [d |-> IF optional = "RequiredElement"
                    THEN setError(d, MissingRequiredField(kind, tag))
                    ELSE d,
              found |-> FALSE, value |-> UInt16(0)]

\* d.getString / d.getUInt16 / d.getUInt32: the value, or the type's zero.
getValue(d, kind, tag, optional, zero) ==
    LET r == findElement(d, kind, tag, optional)
    IN  [d |-> r.d, value |-> IF r.found THEN r.value ELSE zero]

\* Status codec, decode: the status code is required; a non-success code may
\* carry the auxiliary element, which is optional.
getStatus(d, kind) ==
    LET c == getValue(d, kind, "Status", "RequiredElement", UInt16(0))
    IN  IF c.value.n # StatusSuccess
        THEN LET a == getValue(c.d, kind, "ErrorComment", "OptionalElement", String(""))
             IN  [d |-> a.d, value |-> [Status |-> c.value, ErrorComment |-> a.value]]
        ELSE [d |-> c.d, value |-> [Status |-> c.value, ErrorComment |-> String("")]]

\* Elements no get* call consumed, in stream order.
RECURSIVE unparsedFrom(_, _)
unparsedFrom(d, i) ==
    IF i > Len(d.elems) THEN <<>>
    ELSE (IF d.parsed[i] THEN <<>> ELSE <<d.elems[i]>>) \o unparsedFrom(d, i + 1)

unparsedElements(d) == unparsedFrom(d, 1)

\* The declared type of struct member n.
MemberType(def, n) ==
    def.struct[CHOOSE i \in 1..(Len(def.struct) - 1) : def.struct[i].name = n].type

\* &Kind{}: every field at its zero value, Extra nil.
NewInstance(def) ==
    [kind |-> def.name,
     fields |-> [n \in {def.struct[i].name : i \in 1..(Len(def.struct) - 1)} |->
                    ZeroOf(MemberType(def, n))],
     Extra |-> <<>>]

\* One statement of an emitted decode body, run on decoder x.d and instance x.v.
ExecDecodeStmt(def, s, x) ==
    CASE s.op = "new" -> [d |-> x.d, v |-> NewInstance(def)]
      [] s.op = "getStatus" ->
            LET r == getStatus(x.d, def.name)
            IN  [d |-> r.d, v |-> [x.v EXCEPT !.fields[s.field] = r.value]]
      [] s.op \in {"getString", "getUInt16", "getUInt32"} ->
            LET r == getValue(x.d, def.name, s.tag, s.how,
                              IF s.op = "getString" THEN String("") ELSE UInt16(0))
            IN  [d |-> r.d, v |-> [x.v EXCEPT !.fields[s.field] = r.value]]
      [] s.op = "unparsedElements" ->
            [d |-> x.d, v |-> [x.v EXCEPT !.Extra = unparsedElements(x.d)]]

\* Statements i.. of a decode body, in order.
RECURSIVE RunDecode(_, _, _)
RunDecode(def, i, x) ==
    IF i > Len(def.decode) THEN x
    ELSE RunDecode(def, i + 1, ExecDecodeStmt(def, def.decode[i], x))

\* What a nil Message stands for.
NilMessage == [kind |-> "nil", fields |-> <<>>, Extra |-> <<>>]

\* The emitted definition of the kind with the given name.
DefOf(gen, name) ==
    gen.defs[CHOOSE i \in 1..Len(gen.defs) : gen.defs[i].name = name]

\* The first case of the emitted switch that matches, 0 for default.
SwitchArm(gen, commandField) ==
    IF \E i \in 1..Len(gen.switch) : GoConst(gen.switch[i].lit) = commandField
    THEN CHOOSE i \in 1..Len(gen.switch) :
            /\ GoConst(gen.switch[i].lit) = commandField
            /\ \A j \in 1..(i - 1) : GoConst(gen.switch[j].lit) # commandField
    ELSE 0

\* Mutant: the default arm returns nil without d.setError.
decodeMessageForType_SilentDefault(gen, d, commandField) ==
    LET arm == SwitchArm(gen, commandField)
    IN  IF arm > 0
        THEN LET def == DefOf(gen, gen.switch[arm].call)
                 x == RunDecode(def, 1, [d |-> d, v |-> NilMessage])
             IN  [d |-> x.d, v |-> x.v, ran |-> def.name]
        ELSE [d |-> d, v |-> NilMessage, ran |-> "none"]

\* func decodeMessageForType(d *messageDecoder, commandField uint16) Message
decodeMessageForType(gen, d, commandField) ==
    LET arm == SwitchArm(gen, commandField)
    IN  IF arm > 0
        THEN LET def == DefOf(gen, gen.switch[arm].call)
                 x == RunDecode(def, 1, [d |-> d, v |-> NilMessage])
             IN  [d |-> x.d, v |-> x.v, ran |-> def.name]
        ELSE [d |-> setError(d, UnknownCommand(commandField)),
              v |-> NilMessage, ran |-> "none"]

\* ReadMessage: read the command field, dispatch on it, and hand back the
\* message only when no error was recorded.  An absent command field is
\* reported as UnknownCommand of the zero code.
ReadMessage(gen, elems) ==
    LET c == findElement(NewDecoder(elems), "", "CommandField", "OptionalElement")
    IN  IF ~c.found
        THEN [msg |-> NilMessage, err |-> UnknownCommand(0), ran |-> "none"]
        ELSE LET r == decodeMessageForType(gen, c.d, c.value.n)
             IN  [msg |-> IF r.d.err = NoError THEN r.v ELSE NilMessage,
                  err |-> r.d.err, ran |-> r.ran]

\* EncodeMessage: v.Encode(e) on a fresh encoder.
EncodeMessage(gen, v) == RunEncode(DefOf(gen, v.kind).Encode, 1, v, <<>>)


\* ------------------------------------------------------------------ inputs

\* The values a caller puts into a field of the given schema entry.
FieldValues(f) ==
    CASE f.type = "string" -> {String(""), String("1.2.3")}
      [] f.type = "Status" ->
            {[Status |-> UInt16(c), ErrorComment |-> String(a)] :
                c \in {StatusSuccess, 272}, a \in {"", "refused"}}
      [] f.name = "CommandDataSetType" -> {UInt16(0), UInt16(257)}
      [] OTHER -> {UInt16(0), UInt16(7)}

\* Every assignment of values to fields i.. of the schema entry m.
RECURSIVE FieldAssignments(_, _)
FieldAssignments(m, i) ==
    IF i > Len(m.fields) THEN {<<>>}
    ELSE {(m.fields[i].name :> val) @@ g :
            val \in FieldValues(m.fields[i]), g \in FieldAssignments(m, i + 1)}

\* Index of the first optional field of m, 0 when every field is required.
FirstOptional(m) ==
    IF \E i \in 1..Len(m.fields) : ~m.fields[i].required
    THEN CHOOSE i \in 1..Len(m.fields) :
            /\ ~m.fields[i].required
            /\ \A j \in 1..(i - 1) : m.fields[j].required
    ELSE 0

HasStatus(m) == \E i \in 1..Len(m.fields) : m.fields[i].type = "Status"

\* Elements the schema of no kind knows.
ForeignElements == {Element("Private1", UInt16(9)), Element("Private2", String("x"))}

\* Elements a caller may hold in Extra: the foreign ones, one under the tag
\* of the first optional field, the status auxiliary element, and, for a
\* kind that has not both of these, one under the tag of a required field.
ExtraElements(m) ==
    ForeignElements
    \cup (IF FirstOptional(m) > 0
          THEN LET f == m.fields[FirstOptional(m)]
               IN  {Element(f.name, IF f.type = "string" THEN String("AE") ELSE UInt16(5))}
          ELSE {})
    \cup (IF HasStatus(m) THEN {Element("ErrorComment", String("late"))} ELSE {})
    \cup (IF FirstOptional(m) > 0 /\ HasStatus(m)
          THEN {}
          ELSE {Element("CommandDataSetType", UInt16(257))})

\* Sequences over S of length at most n.
RECURSIVE SeqsUpTo(_, _)
SeqsUpTo(S, n) ==
    IF n = 0 THEN {<<>>}
    ELSE SeqsUpTo(S, n - 1) \cup
         {Append(q, x) : q \in {q \in SeqsUpTo(S, n - 1) : Len(q) = n - 1}, x \in S}

\* Message instances of schema entry m a caller may hand to Encode.
Instances(m) ==
    {[kind |-> m.name, fields |-> g, Extra |-> x] :
        g \in FieldAssignments(m, 1), x \in SeqsUpTo(ExtraElements(m), MaxExtra)}

\* The schema entry of the kind named name.
Schema(name) == registry[CHOOSE i \in 1..Len(registry) : registry[i].name = name]

\* ------------------------------------------------------------------ sequential use

NoResult == [msg |-> NilMessage, err |-> NoError, ran |-> "none"]
NoTasks == <<>>

Init ==
    /\ registry = MESSAGES
    /\ generated = main(MESSAGES)
    /\ genpc = "done"
    /\ shared = <<>>
    /\ msg = NilMessage
    /\ stream = <<>>
    /\ result = NoResult
    /\ pc = "idle"
    /\ edits = 0
    /\ tasks = NoTasks

\* A caller encodes a message of some kind.
Encode ==
    /\ pc = "idle"
    /\ \E k \in 1..Len(registry) : \E v \in Instances(registry[k]) :
          /\ msg' = v
          /\ stream' = EncodeMessage(generated, v)
    /\ pc' = "encoded"
    /\ UNCHANGED <<registry, generated, genpc, shared, result, edits, tasks>>

\* The peer decodes the stream.
Decode ==
    /\ pc = "encoded"
    /\ result' = ReadMessage(generated, stream)
    /\ pc' = "decoded"
    /\ UNCHANGED <<registry, generated, genpc, shared, msg, stream, edits, tasks>>

Next == Encode \/ Decode

Spec == Init /\ [][Next]_vars

\* ------------------------------------------------------------------ streams from a peer

\* Instances with empty Extra whose scalar fields are set uniformly: the
\* required ones set, the optional ones all set or all at zero.
WireInstances(m) ==
    {v \in {[kind |-> m.name, fields |-> g, Extra |-> <<>>] : g \in FieldAssignments(m, 1)} :
        /\ \A i \in 1..Len(m.fields) :
              (m.fields[i].required /\ m.fields[i].type # "Status")
                  => v.fields[m.fields[i].name] # ZeroOf(m.fields[i].type)
        /\ \A i, j \in 1..Len(m.fields) :
              (~m.fields[i].required /\ ~m.fields[j].required)
                  => ((v.fields[m.fields[i].name] = ZeroOf(m.fields[i].type))
                       <=> (v.fields[m.fields[j].name] = ZeroOf(m.fields[j].type)))}

\* The k-th element a peer adds: tags no schema knows, values all different.
NthForeign(k) ==
    Element(IF k % 2 = 1 THEN "Private1" ELSE "Private2", UInt16(8 + k))

RemoveAt(s, i) == SubSeq(s, 1, i - 1) \o SubSeq(s, i + 1, Len(s))
InsertAt(s, i, x) == SubSeq(s, 1, i - 1) \o <<x>> \o SubSeq(s, i, Len(s))

\* A peer encodes a message without Extra.
EncodePlain ==
    /\ pc = "idle"
    /\ \E k \in 1..Len(registry) : \E v \in WireInstances(registry[k]) :
          /\ msg' = v
          /\ stream' = EncodeMessage(generated, v)
    /\ pc' = "encoded"
    /\ UNCHANGED <<registry, generated, genpc, shared, result, edits, tasks>>

\* The stream arrives with one element missing.
DropElement ==
    /\ pc = "encoded"
    /\ edits < MaxTamper
    /\ \E i \in 1..Len(stream) : stream' = RemoveAt(stream, i)
    /\ edits' = edits + 1
    /\ UNCHANGED <<registry, generated, genpc, shared, msg, result, pc, tasks>>

\* The stream arrives with one more element, unknown to every schema,
\* somewhere after the command field.
InsertForeign ==
    /\ pc = "encoded"
    /\ edits < MaxTamper
    /\ \E i \in 2..(Len(stream) + 1) : stream' = InsertAt(stream, i, NthForeign(edits + 1))
    /\ edits' = edits + 1
    /\ UNCHANGED <<registry, generated, genpc, shared, msg, result, pc, tasks>>

\* The receiver encodes the message it decoded, to forward it.
ReEncode ==
    /\ pc = "decoded"
    /\ result.err = NoError
    /\ msg' = result.msg
    /\ stream' = EncodeMessage(generated, result.msg)
    /\ pc' = "reencoded"
    /\ UNCHANGED <<registry, generated, genpc, shared, result, edits, tasks>>

NextWire == EncodePlain \/ DropElement \/ InsertForeign \/ Decode \/ ReEncode

SpecWire == Init /\ [][NextWire]_vars

\* ------------------------------------------------------------------ any command field

\* Largest value of decodeMessageForType's parameter commandField uint16.
MaxUInt16 == 65535

\* Kinds whose encoded fields follow the command field in the streams below.
DispatchBodies == {"C_ECHO_RQ", "C_FIND_RQ"}

\* A stream arrives whose command field holds any 16-bit value, followed by
\* the encoded fields of some kind.
ReceiveCommand ==
    /\ pc = "idle"
    /\ \E c \in 0..MaxUInt16 : \E name \in DispatchBodies :
          \E v \in WireInstances(Schema(name)) :
             /\ msg' = v
             /\ stream' = <<Element("CommandField", UInt16(c))>>
                              \o Tail(EncodeMessage(generated, v))
    /\ pc' = "encoded"
    /\ UNCHANGED <<registry, generated, genpc, shared, result, edits, tasks>>

NextDispatch == ReceiveCommand \/ Decode

SpecDispatch == Init /\ [][NextDispatch]_vars

\* ------------------------------------------------------------------ concurrent use
\* Goroutines call Encode and ReadMessage on messages and streams of their
\* own; statements of different calls interleave.

Procs == 1..NumProcs

\* What the concurrent callers encode; the streams they decode are the
\* encodings of these.
ConcInstances ==
    {[kind |-> "C_ECHO_RQ",
      fields |-> [MessageID |-> UInt16(7), CommandDataSetType |-> UInt16(257)],
      Extra |-> <<Element("Private1", UInt16(9))>>]}
    \cup {[kind |-> "C_ECHO_RSP",
           fields |-> [MessageIDBeingRespondedTo |-> UInt16(7),
                       CommandDataSetType |-> UInt16(257),
                       Status |-> s],
           Extra |-> <<>>] :
            s \in {[Status |-> UInt16(StatusSuccess), ErrorComment |-> String("")],
                   [Status |-> UInt16(272), ErrorComment |-> String("refused")]}}

IdleTask ==
    [op |-> "idle", call |-> "", kind |-> "", i |-> 0, where |-> "local",
     v |-> NilMessage, e |-> <<>>, d |-> NewDecoder(<<>>),
     inV |-> NilMessage, inS |-> <<>>, res |-> NoResult, out |-> <<>>]

InitConc ==
    /\ registry = MESSAGES
    /\ generated = main(MESSAGES)
    /\ genpc = "done"
    /\ shared = <<>>
    /\ msg = NilMessage
    /\ stream = <<>>
    /\ result = NoResult
    /\ pc = "idle"
    /\ edits = 0
    /\ tasks = [p \in Procs |-> IdleTask]

\* Goroutine p calls v.Encode(e) with a fresh encoder.
StartEncode(p) ==
    /\ tasks[p].op = "idle"
    /\ \E v \in ConcInstances :
          tasks' = [tasks EXCEPT ![p] =
                       [IdleTask EXCEPT !.op = "encode", !.call = "encode",
                                        !.kind = v.kind, !.i = 1, !.v = v, !.inV = v]]
    /\ UNCHANGED <<registry, generated, genpc, shared, msg, stream, result, pc, edits>>

\* Goroutine p runs the next statement of the Encode body.
EncodeStep(p) ==
    LET tk == tasks[p]
        body == DefOf(generated, tk.kind).Encode
    IN  /\ tk.op = "encode"
        /\ tk.i <= Len(body)
        /\ tasks' = [tasks EXCEPT ![p].e = ExecEncodeStmt(body[tk.i], tk.v, tk.e),
                                  ![p].i = tk.i + 1]
        /\ UNCHANGED <<registry, generated, genpc, shared, msg, stream, result, pc, edits>>

\* Encode returns; the caller holds the encoder's output.
EncodeReturn(p) ==
    LET tk == tasks[p]
    IN  /\ tk.op = "encode"
        /\ tk.i > Len(DefOf(generated, tk.kind).Encode)
        /\ tasks' = [tasks EXCEPT ![p].op = "done", ![p].out = tk.e]
        /\ UNCHANGED <<registry, generated, genpc, shared, msg, stream, result, pc, edits>>

\* Goroutine p calls ReadMessage: the command field is read and the switch
\* of decodeMessageForType picks the decode routine, or fails.
StartDecode(p) ==
    /\ tasks[p].op = "idle"
    /\ \E v \in ConcInstances :
          LET s == EncodeMessage(generated, v)
              c == findElement(NewDecoder(s), "", "CommandField", "OptionalElement")
              arm == SwitchArm(generated, c.value.n)
          IN  tasks' = [tasks EXCEPT ![p] =
                  IF c.found /\ arm > 0
                  THEN [IdleTask EXCEPT !.op = "decode", !.call = "decode",
                                        !.kind = generated.switch[arm].call,
                                        !.i = 1, !.d = c.d, !.inS = s]
                  ELSE [IdleTask EXCEPT !.op = "done", !.call = "decode", !.inS = s,
                                        !.res = [msg |-> NilMessage,
                                                 err |-> UnknownCommand(c.value.n),
                                                 ran |-> "none"]]]
    /\ UNCHANGED <<registry, generated, genpc, shared, msg, stream, result, pc, edits>>

\* The instance goroutine p's decode routine is filling.
InstanceOf(tk) == IF tk.where = "shared" THEN shared[tk.kind] ELSE tk.v

\* Goroutine p runs the next statement of the decode body.
DecodeStep(p) ==
    LET tk == tasks[p]
        def == DefOf(generated, tk.kind)
        s == def.decode[tk.i]
        where == IF s.op = "new" THEN s.how ELSE tk.where
        cur == IF s.op = "new" THEN NilMessage ELSE InstanceOf(tk)
        x == ExecDecodeStmt(def, s, [d |-> tk.d, v |-> cur])
    IN  /\ tk.op = "decode"
        /\ tk.i <= Len(def.decode)
        /\ tasks' = [tasks EXCEPT ![p].d = x.d,
                                  ![p].v = IF where = "local" THEN x.v ELSE tk.v,
                                  ![p].where = where,
                                  ![p].i = tk.i + 1]
        /\ shared' = IF where = "shared" THEN (tk.kind :> x.v) @@ shared ELSE shared
        /\ UNCHANGED <<registry, generated, genpc, msg, stream, result, pc, edits>>

\* The decode routine returns; ReadMessage hands back the message unless an
\* error was recorded.
DecodeReturn(p) ==
    LET tk == tasks[p]
    IN  /\ tk.op = "decode"
        /\ tk.i > Len(DefOf(generated, tk.kind).decode)
        /\ tasks' = [tasks EXCEPT ![p].op = "done",
                        ![p].res = [msg |-> IF tk.d.err = NoError
                                            THEN InstanceOf(tk) ELSE NilMessage,
                                    err |-> tk.d.err, ran |-> tk.kind]]
        /\ UNCHANGED <<registry, generated, genpc, shared, msg, stream, result, pc, edits>>

\* The caller is done with the result and may call again.
Release(p) ==
    /\ tasks[p].op = "done"
    /\ tasks' = [tasks EXCEPT ![p] = IdleTask]
    /\ UNCHANGED <<registry, generated, genpc, shared, msg, stream, result, pc, edits>>

NextConc ==
    \E p \in Procs :
        \/ StartEncode(p) \/ EncodeStep(p) \/ EncodeReturn(p)
        \/ StartDecode(p) \/ DecodeStep(p) \/ DecodeReturn(p)
        \/ Release(p)

SpecConc == InitConc /\ [][NextConc]_vars

\* ------------------------------------------------------------------ running the generator
\* main() over schema lists other than MESSAGES: what the generator does with
\* a schema an editor of the script may write.

CandidateFields ==
    {Field("MessageID", "uint16", r) : r \in BOOLEAN}
    \cup {Field("Status", "Status", r) : r \in BOOLEAN}
    \cup {Field("AffectedSOPClassUID", "string", FALSE),
          Field("Length", "uint32", TRUE),
          Field("Flag", "bool", TRUE)}

\* Sequences over S of length 1..n.
FieldLists(n) == SeqsUpTo(CandidateFields, n) \ {<<>>}

\* Schema lists of two kinds: the first with any candidate fields, the second
\* a plain response; each takes either of two codes.
CandidateRegistries ==
    {MESSAGES}
    \cup {<<Message("N_TEST_RQ", REQUEST, c1, fs),
            Message("N_TEST_RSP", RESPONSE, c2, <<Field("MessageID", "uint16", TRUE)>>)>> :
            c1 \in {\H20, \H8020}, c2 \in {\H20, \H8020}, fs \in FieldLists(MaxFields)}

\* The decode statements emitted before the generator raised on a field.
RECURSIVE DecodePrefix(_, _)
DecodePrefix(fields, i) ==
    IF i > Len(fields) \/ Raises(fields[i]) THEN <<>>
    ELSE <<DecodeFieldStmt(fields[i])>> \o DecodePrefix(fields, i + 1)

\* What generate_go_definition(m, out) has printed when it raises.
PartialDefinition(m) ==
    [generate_go_definition(m) EXCEPT
        !.decode = <<DecodeAllocStmt(m)>> \o DecodePrefix(m.fields, 1)]

InitGen ==
    /\ registry \in CandidateRegistries
    /\ generated = [defs |-> <<>>, switch |-> <<>>]
    /\ genpc = "defs"
    /\ shared = <<>>
    /\ msg = NilMessage
    /\ stream = <<>>
    /\ result = NoResult
    /\ pc = "idle"
    /\ edits = 0
    /\ tasks = NoTasks

\* One round of `for m in MESSAGES: generate_go_definition(m, out)`.
GenerateDefinition ==
    LET next == Len(generated.defs) + 1
    IN  /\ genpc = "defs"
        /\ next <= Len(registry)
        /\ IF GenerationRaises(registry[next])
           THEN /\ generated' = [generated EXCEPT
                                    !.defs = Append(@, PartialDefinition(registry[next]))]
                /\ genpc' = "raised"
           ELSE /\ generated' = [generated EXCEPT
                                    !.defs = Append(@, generate_go_definition(registry[next]))]
                /\ genpc' = "defs"
        /\ UNCHANGED <<registry, shared, msg, stream, result, pc, edits, tasks>>

\* The prints of decodeMessageForType that end main().
GenerateSwitch ==
    /\ genpc = "defs"
    /\ Len(generated.defs) = Len(registry)
    /\ generated' = [generated EXCEPT !.switch = DispatchCases(registry)]
    /\ genpc' = "done"
    /\ UNCHANGED <<registry, shared, msg, stream, result, pc, edits, tasks>>

NextGen == GenerateDefinition \/ GenerateSwitch

SpecGen == InitGen /\ [][NextGen]_vars

\* The steps of main() add up to main(registry).
GenerationComplete == genpc = "done" => generated = main(registry)

\* ------------------------------------------------------------------ properties

\* The tag under which a field's (first) element travels.
TagOf(f) == IF f.type = "Status" THEN "Status" ELSE f.name

\* The tags a kind's schema fields can put on the wire, in declared order.
RECURSIVE WireTags(_, _)
WireTags(fields, i) ==
    IF i > Len(fields) THEN <<>>
    ELSE (IF fields[i].type = "Status" THEN <<"Status", "ErrorComment">>
          ELSE <<fields[i].name>>) \o WireTags(fields, i + 1)

Rank(tags, tag) == CHOOSE i \in 1..Len(tags) : tags[i] = tag

\* The value message v holds for the wire tag.
HeldUnder(m, v, tag) ==
    LET i == CHOOSE i \in 1..Len(m.fields) :
                 \/ m.fields[i].type # "Status" /\ m.fields[i].name = tag
                 \/ m.fields[i].type = "Status" /\ tag \in {"Status", "ErrorComment"}
        f == m.fields[i]
    IN  IF f.type # "Status" THEN v.fields[f.name]
        ELSE IF tag = "Status" THEN v.fields[f.name].Status
        ELSE v.fields[f.name].ErrorComment

\* A Status carries its auxiliary element only with a non-success code.
StatusWellFormed(v) ==
    \A i \in 1..Len(Schema(v.kind).fields) :
        LET f == Schema(v.kind).fields[i]
        IN  f.type = "Status" =>
               (v.fields[f.name].ErrorComment # String("") =>
                    v.fields[f.name].Status.n # StatusSuccess)

\* Every required scalar field holds a value other than its zero.
RequiredSet(v) ==
    \A i \in 1..Len(Schema(v.kind).fields) :
        LET f == Schema(v.kind).fields[i]
        IN  (f.required /\ f.type # "Status") => v.fields[f.name] # ZeroOf(f.type)

\* Tags of the schema that v leaves unset: optional fields at zero, and the
\* auxiliary element of a Status that carries none.
UnsetTags(v) ==
    LET m == Schema(v.kind)
    IN  {m.fields[i].name : i \in {i \in 1..Len(m.fields) :
            /\ ~m.fields[i].required
            /\ m.fields[i].type # "Status"
            /\ v.fields[m.fields[i].name] = ZeroOf(m.fields[i].type)}}
        \cup (IF \E i \in 1..Len(m.fields) :
                    /\ m.fields[i].type = "Status"
                    /\ v.fields[m.fields[i].name].ErrorComment = String("")
              THEN {"ErrorComment"} ELSE {})

ExtraAvoidsUnset(v) == \A i \in 1..Len(v.Extra) : v.Extra[i].tag \notin UnsetTags(v)

RoundTrips == result.err = NoError /\ result.msg = msg

\* C1 as claimed: Decode(Encode(m)) = m for every validly populated m, Extra
\* arbitrary, elements under the tag of an unset schema field included.
C1_RoundTripAnyExtra ==
    (pc = "decoded" /\ RequiredSet(msg) /\ StatusWellFormed(msg)) => RoundTrips

\* C1 amended: Decode(Encode(m)) = m, field for field and Extra in order,
\* for every m with a well-formed Status whose Extra holds no element under
\* the tag of a schema field (or status auxiliary element) that m leaves unset.
C1_RoundTrip ==
    (pc = "decoded" /\ StatusWellFormed(msg) /\ ExtraAvoidsUnset(msg)) => RoundTrips

\* C1 witness: a message with an optional field set, and an Extra of two
\* elements one of which travels under that field's tag, was decoded back.
C1_Witness ==
    /\ pc = "decoded"
    /\ msg.kind = "C_GET_RSP"
    /\ msg.fields["NumberOfRemainingSuboperations"] = UInt16(7)
    /\ msg.fields["Status"] = [Status |-> UInt16(272), ErrorComment |-> String("refused")]
    /\ msg.Extra = <<Element("Private2", String("x")),
                     Element("NumberOfRemainingSuboperations", UInt16(5))>>
    /\ StatusWellFormed(msg) /\ ExtraAvoidsUnset(msg)
    /\ result.msg = msg

\* C2: Encode writes CommandField with the kind's code first, then schema
\* field elements in declared order with the values held, then Extra as is.
C2_WireOrder ==
    pc \in {"encoded", "decoded"} =>
        LET m == Schema(msg.kind)
            tags == WireTags(m.fields, 1)
            n == Len(stream)
            x == Len(msg.Extra)
        IN  /\ n >= 1 + x
            /\ stream[1] = Element("CommandField", UInt16(m.command_field))
            /\ SubSeq(stream, n - x + 1, n) = msg.Extra
            /\ \A i \in 2..(n - x) :
                  /\ \E r \in 1..Len(tags) : tags[r] = stream[i].tag
                  /\ stream[i].value = HeldUnder(m, msg, stream[i].tag)
            /\ \A i, j \in 2..(n - x) :
                  i < j => Rank(tags, stream[i].tag) < Rank(tags, stream[j].tag)
            /\ (/\ msg.kind = "C_ECHO_RQ"
                /\ msg.fields["MessageID"] = UInt16(7)
                /\ msg.fields["CommandDataSetType"] = UInt16(257)
                /\ msg.Extra = <<>>)
               => stream = <<Element("CommandField", UInt16(48)),
                             Element("MessageID", UInt16(7)),
                             Element("CommandDataSetType", UInt16(257))>>

\* C2 witness: a C_MOVE_RSP with optional fields set and two Extra elements
\* was encoded, the second Extra element last on the wire.
C2_Witness ==
    /\ pc = "encoded"
    /\ msg.kind = "C_MOVE_RSP"
    /\ msg.fields["NumberOfFailedSuboperations"] = UInt16(7)
    /\ msg.fields["NumberOfRemainingSuboperations"] = UInt16(0)
    /\ msg.Extra = <<Element("Private1", UInt16(9)), Element("Private2", String("x"))>>
    /\ stream[Len(stream)] = Element("Private2", String("x"))
    /\ stream[1] = Element("CommandField", UInt16(32801))

\* The part of the stream Encode wrote for schema fields.
SchemaPart == SubSeq(stream, 2, Len(stream) - Len(msg.Extra))

\* C3: Encode emits a field's element iff the field is required or its value
\* is not the zero of its type; decoding a stream without an optional
\* field's element gives that field its zero value, without error.
C3_Optionality ==
    pc \in {"encoded", "decoded"} =>
        \A i \in 1..Len(Schema(msg.kind).fields) :
            LET f == Schema(msg.kind).fields[i]
            IN  /\ (\E p \in 1..Len(SchemaPart) : SchemaPart[p].tag = TagOf(f))
                    <=> (f.required \/ msg.fields[f.name] # ZeroOf(f.type))
                /\ (/\ pc = "decoded"
                    /\ ~f.required
                    /\ \A p \in 1..Len(stream) : stream[p].tag # TagOf(f))
                   => (result.err = NoError
                       /\ result.msg.fields[f.name] = ZeroOf(f.type))

\* C3 witness: a C_STORE_RQ with the required Priority at zero (emitted) and
\* the optional MoveOriginatorMessageID at zero (not emitted) was decoded.
C3_Witness ==
    /\ pc = "decoded"
    /\ msg.kind = "C_STORE_RQ"
    /\ msg.fields["Priority"] = UInt16(0)
    /\ msg.fields["MoveOriginatorMessageID"] = UInt16(0)
    /\ msg.fields["MoveOriginatorApplicationEntityTitle"] = String("1.2.3")
    /\ \E p \in 1..Len(stream) : stream[p] = Element("Priority", UInt16(0))
    /\ \A p \in 1..Len(stream) : stream[p].tag # "MoveOriginatorMessageID"
    /\ result.err = NoError
    /\ result.msg.fields["MoveOriginatorMessageID"] = UInt16(0)

\* The first element is a command field holding the code of schema entry m.
StartsWithCodeOf(m) ==
    /\ Len(stream) >= 1
    /\ stream[1] = Element("CommandField", UInt16(m.command_field))

Carries(tag) == \E p \in 1..Len(stream) : stream[p].tag = tag

\* C4: a stream that starts with a kind's code and carries every required
\* element but that of field f is refused with MissingRequiredField(kind, f),
\* and no message is handed back.
C4_RequiredEnforced ==
    pc = "decoded" =>
        \A k \in 1..Len(registry) : \A i \in 1..Len(registry[k].fields) :
            LET m == registry[k]
                f == m.fields[i]
            IN  (/\ StartsWithCodeOf(m)
                 /\ f.required
                 /\ ~Carries(TagOf(f))
                 /\ \A j \in 1..Len(m.fields) :
                       (j # i /\ m.fields[j].required) => Carries(TagOf(m.fields[j])))
                => (/\ result.err = MissingRequiredField(m.name, f.name)
                    /\ result.msg = NilMessage)

\* C4 witness: a C_MOVE_RQ stream without its MoveDestination element, and
\* with a foreign element added, was refused.
C4_Witness ==
    /\ pc = "decoded"
    /\ StartsWithCodeOf(Schema("C_MOVE_RQ"))
    /\ ~Carries("MoveDestination")
    /\ Carries("AffectedSOPClassUID") /\ Carries("MessageID")
    /\ Carries("Priority") /\ Carries("CommandDataSetType")
    /\ Carries("Private2")
    /\ result.err = MissingRequiredField("C_MOVE_RQ", "MoveDestination")

KnownCodes == {registry[k].command_field : k \in 1..Len(registry)}

\* C5: a stream whose command field holds a value that is the code of no
\* kind is refused with UnknownCommand of exactly that value; no message is
\* handed back and no kind's decode routine runs.
C5_UnknownCommand ==
    (/\ pc = "decoded"
     /\ Len(stream) >= 1
     /\ stream[1].tag = "CommandField"
     /\ stream[1].value.n \notin KnownCodes)
    => (/\ result.err = UnknownCommand(stream[1].value.n)
        /\ result.msg = NilMessage
        /\ result.ran = "none")

\* C5 witness: the stream of a C_FIND_RQ whose command field reads 0x22.
C5_Witness ==
    /\ pc = "decoded"
    /\ stream[1] = Element("CommandField", UInt16(34))
    /\ Carries("Priority")
    /\ result.err = UnknownCommand(34)
    /\ result.ran = "none"

\* The tags the schema entry m can consume.
SchemaTags(m) ==
    {"CommandField"} \cup {WireTags(m.fields, 1)[r] : r \in 1..Len(WireTags(m.fields, 1))}

RECURSIVE ForeignPart(_, _, _)
ForeignPart(s, i, known) ==
    IF i > Len(s) THEN <<>>
    ELSE (IF s[i].tag \in known THEN <<>> ELSE <<s[i]>>) \o ForeignPart(s, i + 1, known)

\* A stream a well-behaved encoder of kind m could have produced, apart from
\* elements under foreign tags: m's code first, every required element there,
\* the status auxiliary element only beside a non-success status.
ValidStreamOf(m) ==
    /\ StartsWithCodeOf(m)
    /\ \A j \in 1..Len(m.fields) : m.fields[j].required => Carries(TagOf(m.fields[j]))
    /\ Carries("ErrorComment") =>
          \E p \in 1..Len(stream) :
              stream[p].tag = "Status" /\ stream[p].value.n # StatusSuccess

\* C6: decoding a valid stream that also carries elements under tags the
\* kind's schema does not know succeeds, Extra is exactly those elements in
\* stream order, and encoding the decoded message again writes them as they
\* were, after the schema fields.
C6_ForwardCompat ==
    /\ pc = "decoded" =>
          \A k \in 1..Len(registry) :
              ValidStreamOf(registry[k]) =>
                  /\ result.err = NoError
                  /\ result.msg.kind = registry[k].name
                  /\ result.msg.Extra = ForeignPart(stream, 1, SchemaTags(registry[k]))
    /\ pc = "reencoded" =>
          LET n == Len(stream)
              x == Len(result.msg.Extra)
          IN  /\ n >= x
              /\ SubSeq(stream, n - x + 1, n) = result.msg.Extra

\* C6 witness: two foreign elements, the later-added one ahead of the other
\* and both amid the schema fields, came back in Extra and went out again.
C6_Witness ==
    /\ pc = "reencoded"
    /\ result.msg.kind = "C_GET_RSP"
    /\ result.msg.Extra = <<NthForeign(2), NthForeign(1)>>
    /\ result.msg.fields["NumberOfWarningSuboperations"] = UInt16(7)
    /\ stream[Len(stream)] = NthForeign(1)
    /\ stream[Len(stream) - 1] = NthForeign(2)

\* The codes the specification's table fixes, as hexadecimal digits.
SpecCodeTable ==
    [C_GET_RQ |-> <<1, 0>>, C_FIND_RQ |-> <<2, 0>>, C_MOVE_RQ |-> <<2, 1>>,
     C_ECHO_RQ |-> <<3, 0>>, C_STORE_RQ |-> <<1>>,
     C_GET_RSP |-> <<8, 0, 1, 0>>, C_FIND_RSP |-> <<8, 0, 2, 0>>,
     C_MOVE_RSP |-> <<8, 0, 2, 1>>, C_ECHO_RSP |-> <<8, 0, 3, 0>>,
     C_STORE_RSP |-> <<8, 0, 0, 1>>]

\* The value the first statement of an emitted Encode body writes.
WrittenCode(def) == ExecEncodeStmt(def.Encode[1], NilMessage, <<>>)[1].value.n

\* C7: the codes are pairwise distinct and are those of the specification's
\* table, and the code Encode writes for a kind selects the decode routine of
\* that kind and of no other.  The table-wide part is stated of the state
\* before any call; after a call the same is stated of the kind in hand.
C7_DispatchConsistent ==
    /\ pc = "idle" =>
          /\ \A i, j \in 1..Len(registry) :
                i # j => registry[i].command_field # registry[j].command_field
          /\ {registry[i].name : i \in 1..Len(registry)} = DOMAIN SpecCodeTable
          /\ \A i \in 1..Len(registry) :
                registry[i].command_field = DigitsValue(SpecCodeTable[registry[i].name], 16)
          /\ \A i \in 1..Len(generated.defs) :
                /\ SwitchArm(generated, WrittenCode(generated.defs[i])) > 0
                /\ \A a \in 1..Len(generated.switch) :
                      GoConst(generated.switch[a].lit) = WrittenCode(generated.defs[i])
                          <=> generated.switch[a].call = generated.defs[i].name
    /\ pc \in {"encoded", "decoded"} =>
          /\ stream[1].value.n = DigitsValue(SpecCodeTable[msg.kind], 16)
          /\ \A j \in 1..Len(registry) :
                registry[j].command_field = stream[1].value.n <=> registry[j].name = msg.kind
    /\ pc = "decoded" => (result.ran = msg.kind /\ result.msg.kind = msg.kind)

\* C7 witness: an encoded C_MOVE_RSP was dispatched to decodeC_MOVE_RSP.
C7_Witness ==
    /\ pc = "decoded"
    /\ msg.kind = "C_MOVE_RSP"
    /\ stream[1].value.n = 32801
    /\ result.ran = "C_MOVE_RSP"

\* C9: the registry and the generated code are the same in every state, no
\* package-level data is written, Encode leaves its message as it was, and
\* every finished call holds the result the same call gives when run alone.
C9_Stateless ==
    /\ registry = MESSAGES
    /\ generated.switch = DispatchCases(MESSAGES)
    /\ shared = <<>>
    /\ \A p \in Procs :
          LET tk == tasks[p]
          IN  /\ tk.call = "encode" => tk.v = tk.inV
              /\ (tk.op = "done" /\ tk.call = "encode")
                    => tk.out = EncodeMessage(main(MESSAGES), tk.inV)
              /\ (tk.op = "done" /\ tk.call = "decode")
                    => tk.res = ReadMessage(main(MESSAGES), tk.inS)

\* C9 witness: two decodes of C_ECHO_RSP streams with different statuses
\* ran interleaved, one finished while the other was mid-way.
C9_Witness ==
    \E p, q \in Procs :
        /\ p # q
        /\ tasks[p].op = "done" /\ tasks[p].call = "decode"
        /\ tasks[p].res.msg.kind = "C_ECHO_RSP"
        /\ tasks[p].res.msg.fields["Status"].Status = UInt16(272)
        /\ tasks[q].op = "decode" /\ tasks[q].kind = "C_ECHO_RSP"
        /\ tasks[q].i = 3
        /\ tasks[q].inS # tasks[p].inS

SharesCode(ms) ==
    \E i, j \in 1..Len(ms) : i # j /\ ms[i].command_field = ms[j].command_field

SharesTag(ms) ==
    \E k \in 1..Len(ms) : \E i, j \in 1..Len(ms[k].fields) :
        i # j /\ TagOf(ms[k].fields[i]) = TagOf(ms[k].fields[j])

\* C8: when two kinds share a command-field code, or two fields of a kind
\* share a tag, construction fails and produces no encoder, decoder or
\* dispatch table.
C8_DuplicatesRefused ==
    (SharesCode(registry) \/ SharesTag(registry))
        => (generated.defs = <<>> /\ generated.switch = <<>> /\ genpc # "done")

\* C10: for every Status-typed field, required or optional, the emitted
\* Encode statement is the Status codec's and so is the emitted decode
\* statement.
C10_StatusDelegated ==
    \A k \in 1..Len(generated.defs) : \A i \in 1..Len(registry[k].fields) :
        registry[k].fields[i].type = "Status" =>
            /\ generated.defs[k].Encode[i + 1].op = "encodeStatus"
            /\ (i + 1 <= Len(generated.defs[k].decode)
                    => generated.defs[k].decode[i + 1].op = "getStatus")

====
